---- MODULE Spec2Model ----
(***************************************************************************)
(* Model of the julz-ai-assistant chat proxy: the chat controller          *)
(* (handleChat), the upstream relay (streamAIReply), the in-memory usage   *)
(* accumulator (_tokenStats, _recordUsage) and the JSON error middleware.  *)
(*                                                                         *)
(* Every request is one linear task of the single-threaded event loop:     *)
(* a step of the model is the code that runs between two awaits.           *)
(***************************************************************************)
EXTENDS Integers, Sequences, FiniteSets

\* ---------------------------------------------------------------- bounds
\* Number of chat requests that can be in flight at once.
NumReq == 2
\* Largest number of items the upstream streams deliver, all requests
\* together.
MaxItems == 2
\* Largest number of character runs in a message string.
MaxRuns == 3
\* Largest number of requests of one IP that reach the limiter in a window.
MaxHits == 102
\* The chunk frames of a response that the chatbox client reads.
MaxFrames == 2

\* ------------------------------------------------------ program constants
\* chat.controller.js: trimmed.length > 1000
MaxMessageLength == 1000

MsgMissing == "Request body must include a \"message\" string."
MsgBlank == "\"message\" must not be blank."
MsgTooLong == "\"message\" must be 1000 characters or fewer."
MsgStreamError == "Stream error occurred."
MsgInternal == "Internal server error"
MsgUpstream == "upstream failure"

Reqs == 1..NumReq

\* ------------------------------------------------------------- JS values
\* A string is kept as a sequence of runs of characters: n >= 1 characters
\* that are all whitespace (k = "ws") or all non-whitespace (k = "ch").
RunLengths == {1, MaxMessageLength - 1, MaxMessageLength, MaxMessageLength + 1}
Runs == [k : {"ws", "ch"}, n : RunLengths]

RECURSIVE SeqsUpTo(_, _)
SeqsUpTo(S, n) ==
    IF n = 0 THEN {<<>>}
    ELSE LET shorter == SeqsUpTo(S, n - 1)
         IN  shorter \cup {Append(s, x) : s \in {t \in shorter : Len(t) = n - 1}, x \in S}

JsString(runs) == [t |-> "string", runs |-> runs]
JsUndefined == [t |-> "undefined"]
JsNull == [t |-> "null"]
JsNumber(v) == [t |-> "number", v |-> v]
JsBoolean(v) == [t |-> "boolean", v |-> v]
JsObject == [t |-> "object"]
JsArray == [t |-> "array"]

\* typeof v
TypeOf(v) ==
    IF v.t \in {"null", "object", "array"} THEN "object" ELSE v.t

RECURSIVE StrLength(_)
\* s.length
StrLength(runs) ==
    IF runs = <<>> THEN 0 ELSE Head(runs).n + StrLength(Tail(runs))

\* !v
Falsy(v) ==
    \/ v.t \in {"undefined", "null"}
    \/ v.t = "number" /\ v.v = 0
    \/ v.t = "boolean" /\ v.v = FALSE
    \/ v.t = "string" /\ StrLength(v.runs) = 0

RECURSIVE TrimStart(_)
TrimStart(runs) ==
    IF runs # <<>> /\ Head(runs).k = "ws" THEN TrimStart(Tail(runs)) ELSE runs

RECURSIVE TrimEnd(_)
TrimEnd(runs) ==
    IF runs # <<>> /\ runs[Len(runs)].k = "ws"
    THEN TrimEnd(SubSeq(runs, 1, Len(runs) - 1))
    ELSE runs

\* String.prototype.trim
Trim(runs) == TrimEnd(TrimStart(runs))

\* ---------------------------------------------------------------- errors
NoError == [none |-> TRUE]
\* new Error(message) with err.statusCode = statusCode (0: not set)
Err(message, statusCode) == [message |-> message, statusCode |-> statusCode]

\* Validate with the length check on the untrimmed message.
Validate_UntrimmedLength(message) ==
    IF Falsy(message) \/ TypeOf(message) # "string"
    THEN Err(MsgMissing, 400)
    ELSE IF StrLength(Trim(message.runs)) = 0
    THEN Err(MsgBlank, 400)
    ELSE IF StrLength(message.runs) > MaxMessageLength
    THEN Err(MsgTooLong, 400)
    ELSE NoError

\* Validate without the typeof check: message.trim() of a truthy value that
\* is not a string raises a TypeError, which the catch block hands to next().
Validate_NoTypeCheck(message) ==
    IF Falsy(message)
    THEN Err(MsgMissing, 400)
    ELSE IF TypeOf(message) # "string"
    THEN Err("message.trim is not a function", 0)
    ELSE IF StrLength(Trim(message.runs)) = 0
    THEN Err(MsgBlank, 400)
    ELSE IF StrLength(Trim(message.runs)) > MaxMessageLength
    THEN Err(MsgTooLong, 400)
    ELSE NoError

\* ------------------------------------------------- chat.controller.js
\* The three validation checks of handleChat, in the order of the code.
\* The result is the error handed to next(), or NoError.
Validate(message) ==
    IF Falsy(message) \/ TypeOf(message) # "string"
    THEN Err(MsgMissing, 400)
    ELSE IF StrLength(Trim(message.runs)) = 0
    THEN Err(MsgBlank, 400)
    ELSE IF StrLength(Trim(message.runs)) > MaxMessageLength
    THEN Err(MsgTooLong, 400)
    ELSE NoError

\* ------------------------------------------------- error.middleware.js
\* errorMiddleware: err.statusCode || err.status || 500 and
\* err.message || "Internal server error" (the empty message is falsy).
ErrorStatus(err) == IF err.statusCode # 0 THEN err.statusCode ELSE 500
ErrorBody(err) == [error |-> IF err.message # "" THEN err.message ELSE MsgInternal]

\* --------------------------------------------------------- the response
NoJson == [none |-> TRUE]

\* A fresh http.ServerResponse: status 200, nothing sent.
NewResponse ==
    [statusCode |-> 200, headers |-> {}, headersSent |-> FALSE,
     out |-> <<>>, json |-> NoJson, ended |-> FALSE, writeAfterEnd |-> FALSE,
     tokenUsage |-> JsUndefined]

\* res.setHeader(name, value)
setHeader(rs, name, value) ==
    [rs EXCEPT !.headers = {h \in @ : h[1] # name} \cup {<<name, value>>}]

\* res.flushHeaders()
flushHeaders(rs) == [rs EXCEPT !.headersSent = TRUE]

\* res.write(frame): a write on an ended response adds nothing to the body
\* and is an error (ERR_STREAM_WRITE_AFTER_END).
write(rs, frame) ==
    IF rs.ended
    THEN [rs EXCEPT !.writeAfterEnd = TRUE]
    ELSE [rs EXCEPT !.out = Append(@, frame), !.headersSent = TRUE]

\* res.end()
end(rs) == [rs EXCEPT !.ended = TRUE, !.headersSent = TRUE]

\* res.status(statusCode).json(body)
json(rs, statusCode, body) ==
    end([setHeader(rs, "Content-Type", "application/json")
            EXCEPT !.statusCode = statusCode, !.json = body])

\* The four SSE headers set without flushHeaders().
SetSseHeaders_NoFlush(rs) ==
    setHeader(
      setHeader(
        setHeader(
          setHeader(rs, "Content-Type", "text/event-stream"),
          "Cache-Control", "no-cache"),
        "Connection", "keep-alive"),
      "X-Accel-Buffering", "no")

\* The four SSE headers of handleChat, then flushHeaders().
SetSseHeaders(rs) ==
    flushHeaders(
      setHeader(
        setHeader(
          setHeader(
            setHeader(rs, "Content-Type", "text/event-stream"),
            "Cache-Control", "no-cache"),
          "Connection", "keep-alive"),
        "X-Accel-Buffering", "no"))

\* The text written for one event: `data: ${JSON.stringify(payload)}\n\n`.
SseFrame(payload) == [data |-> payload]

ChunkFrame(delta) == SseFrame([chunk |-> delta])
DoneFrame(usage) == SseFrame([done |-> TRUE, usage |-> usage])
ErrorFrame == SseFrame([error |-> MsgStreamError])

\* ------------------------------------------------------- ai.service.js
\* A usage summary as the provider sends it.
Usage(p, c, t) ==
    [t |-> "object", prompt_tokens |-> p, completion_tokens |-> c, total_tokens |-> t]

Hi == JsString(<<[k |-> "ch", n |-> 2]>>)
There == JsString(<<[k |-> "ws", n |-> 1], [k |-> "ch", n |-> 5]>>)
Empty == JsString(<<>>)

\* The items an upstream stream can deliver: content is
\* chunk.choices[0]?.delta?.content, usage is chunk.usage.
StreamItems ==
    { [content |-> Hi, usage |-> JsNull],
      [content |-> There, usage |-> JsNull],
      [content |-> Empty, usage |-> Usage(2, 1, 3)],
      [content |-> JsUndefined, usage |-> Usage(5, 3, 8)] }

\* const _tokenStats = { ... }
InitialTokenStats ==
    [totalRequests |-> 0, promptTokens |-> 0, completionTokens |-> 0, totalTokens |-> 0]

\* _recordUsage adding the prompt tokens to the completion counter.
_recordUsage_WrongField(stats, usage) ==
    IF Falsy(usage)
    THEN stats
    ELSE [totalRequests |-> stats.totalRequests + 1,
          promptTokens |-> stats.promptTokens + usage.prompt_tokens,
          completionTokens |-> stats.completionTokens + usage.prompt_tokens,
          totalTokens |-> stats.totalTokens + usage.total_tokens]

\* _recordUsage counting the request before it looks at the summary.
_recordUsage_CountsNull(stats, usage) ==
    IF Falsy(usage)
    THEN [stats EXCEPT !.totalRequests = @ + 1]
    ELSE [totalRequests |-> stats.totalRequests + 1,
          promptTokens |-> stats.promptTokens + usage.prompt_tokens,
          completionTokens |-> stats.completionTokens + usage.completion_tokens,
          totalTokens |-> stats.totalTokens + usage.total_tokens]

\* _recordUsage writing what it read before another relay's update.
_recordUsage_LostUpdate(stats, usage) ==
    IF Falsy(usage)
    THEN stats
    ELSE [totalRequests |-> stats.totalRequests + 1,
          promptTokens |-> usage.prompt_tokens,
          completionTokens |-> stats.completionTokens + usage.completion_tokens,
          totalTokens |-> stats.totalTokens + usage.total_tokens]

\* _recordUsage(usage): the counters after the call.
_recordUsage(stats, usage) ==
    IF Falsy(usage)
    THEN stats
    ELSE [totalRequests |-> stats.totalRequests + 1,
          promptTokens |-> stats.promptTokens + usage.prompt_tokens,
          completionTokens |-> stats.completionTokens + usage.completion_tokens,
          totalTokens |-> stats.totalTokens + usage.total_tokens]

\* The loop writing a frame for every delta that is not undefined.
ForwardDelta_NotUndefined(rs, chunk) ==
    IF chunk.content.t # "undefined" THEN write(rs, ChunkFrame(chunk.content)) ELSE rs

\* Body of the for-await loop, the response part:
\* if (delta) res.write(chunk frame).
ForwardDelta(rs, chunk) ==
    IF ~Falsy(chunk.content) THEN write(rs, ChunkFrame(chunk.content)) ELSE rs

\* The loop keeping the first usage summary it sees.
CaptureUsage_First(usage, chunk) ==
    IF Falsy(usage) /\ ~Falsy(chunk.usage) THEN chunk.usage ELSE usage

\* Body of the for-await loop, the usage part:
\* if (chunk.usage) usage = chunk.usage.
CaptureUsage(usage, chunk) ==
    IF ~Falsy(chunk.usage) THEN chunk.usage ELSE usage

\* The response ended before the done frame is written.
FinishStream_EndFirst(rs, usage) == write(end(rs), DoneFrame(usage))

\* After the loop: res.write(done frame); res.end().
FinishStream(rs, usage) == end(write(rs, DoneFrame(usage)))

\* The catch block writing the error frame without ending the response.
CatchResponse_NoEnd(rs, err) ==
    IF rs.headersSent
    THEN write(rs, ErrorFrame)
    ELSE json(rs, ErrorStatus(err), ErrorBody(err))

\* The catch block of handleChat, the response part.
CatchResponse(rs, err) ==
    IF rs.headersSent
    THEN end(write(rs, ErrorFrame))
    ELSE json(rs, ErrorStatus(err), ErrorBody(err))

\* The catch block handing every error to next().
CatchNext_Always(rs, err) == err

\* The catch block of handleChat, the part handed to next().
CatchNext(rs, err) == IF rs.headersSent THEN NoError ELSE err

\* ------------------------------------------- the frames on the wire
\* Text is a sequence of characters; these are the ones with a role in the
\* framing, next to ordinary characters and words written as themselves.
LF == "LF"
Quote == "QUOTE"
Backslash == "BACKSLASH"
EAcute == "U+00E9"
Replacement == "U+FFFD"

\* The number n in decimal; the counts of the model have one digit.
Digits(n) == <<<<"0", "1", "2", "3", "4", "5", "6", "7", "8", "9">>[n + 1]>>

RECURSIVE Escape(_)
\* JSON.stringify on the characters of a string: the quote, the backslash
\* and the line feed are written as two-character escapes.
Escape(text) ==
    IF text = <<>> THEN <<>>
    ELSE (CASE Head(text) = LF -> <<Backslash, "n">>
            [] Head(text) = Quote -> <<Backslash, Quote>>
            [] Head(text) = Backslash -> <<Backslash, Backslash>>
            [] OTHER -> <<Head(text)>>) \o Escape(Tail(text))

\* JSON.stringify of a string.
StringifyString(text) == <<Quote>> \o Escape(text) \o <<Quote>>

\* JSON.stringify of a property name.
Key(name) == <<Quote, name, Quote, ":">>

\* JSON.stringify of usage: null or the object of the three counts.
StringifyUsage(usage) ==
    IF usage = JsNull THEN <<"null">>
    ELSE <<"{">> \o Key("prompt_tokens") \o Digits(usage.prompt_tokens) \o <<",">>
               \o Key("completion_tokens") \o Digits(usage.completion_tokens) \o <<",">>
               \o Key("total_tokens") \o Digits(usage.total_tokens) \o <<"}">>

\* JSON.stringify of the payload of a chunk, done or error frame.
JSON_stringify(payload) ==
    IF "chunk" \in DOMAIN payload
    THEN <<"{">> \o Key("chunk") \o StringifyString(payload.chunk) \o <<"}">>
    ELSE IF "done" \in DOMAIN payload
    THEN <<"{">> \o Key("done") \o <<"true", ",">> \o Key("usage")
               \o StringifyUsage(payload.usage) \o <<"}">>
    ELSE <<"{">> \o Key("error") \o StringifyString(<<payload.error>>) \o <<"}">>

\* The field prefix that starts every frame.
DataPrefix == <<"d", "a", "t", "a", ":", " ">>

\* `data: ${JSON.stringify(payload)}\n\n`
FrameText(payload) == DataPrefix \o JSON_stringify(payload) \o <<LF, LF>>

RECURSIVE Utf8Encode(_)
\* The bytes res.write sends for a text: UTF-8, two bytes for U+00E9.
Utf8Encode(text) ==
    IF text = <<>> THEN <<>>
    ELSE (IF Head(text) = EAcute THEN <<"0xC3", "0xA9">> ELSE <<Head(text)>>)
         \o Utf8Encode(Tail(text))

RECURSIVE Wire(_)
\* The byte stream of a response: its frames one after the other.
Wire(payloads) ==
    IF payloads = <<>> THEN <<>>
    ELSE Utf8Encode(FrameText(Head(payloads))) \o Wire(Tail(payloads))

\* ------------------------------------------------- client/chatbox.js
\* TextDecoder.decode(bytes, { stream }): a lead byte at the end of the input
\* is kept for the next call when stream is set and is replaced otherwise;
\* a byte that does not fit is replaced.
Utf8Decode(bytes, stream) ==
    LET n == Len(bytes)
        Skip == "skip"
        at == [i \in 1..n |->
                 IF bytes[i] = "0xC3"
                 THEN IF i < n
                      THEN IF bytes[i + 1] = "0xA9" THEN EAcute ELSE Replacement
                      ELSE IF stream THEN Skip ELSE Replacement
                 ELSE IF bytes[i] = "0xA9"
                 THEN IF i > 1 /\ bytes[i - 1] = "0xC3" THEN Skip ELSE Replacement
                 ELSE bytes[i]]
        Kept(c) == c # Skip
    IN
      [chars |-> SelectSeq(at, Kept),
       pending |-> IF stream /\ n > 0 /\ bytes[n] = "0xC3" THEN <<"0xC3">> ELSE <<>>]

RECURSIVE split(_)
\* s.split("\n\n"): the pieces between the occurrences of the separator,
\* found from the left.
split(s) ==
    LET at == {i \in 1..Len(s) - 1 : s[i] = LF /\ s[i + 1] = LF} IN
      IF at = {} THEN <<s>>
      ELSE LET i == CHOOSE i \in at : \A j \in at : i <= j IN
             <<SubSeq(s, 1, i - 1)>> \o split(SubSeq(s, i + 2, Len(s)))

\* s.startsWith(prefix)
startsWith(s, prefix) ==
    Len(s) >= Len(prefix) /\ SubSeq(s, 1, Len(prefix)) = prefix

NoText == [ok |-> FALSE, text |-> <<>>]

RECURSIVE Unescape(_)
\* The characters between the quotes of a JSON string: an escape stands for
\* its character; a bare quote, line feed or backslash is a syntax error.
Unescape(chars) ==
    IF chars = <<>> THEN [ok |-> TRUE, text |-> <<>>]
    ELSE IF Head(chars) = Backslash
    THEN IF Len(chars) >= 2 /\ chars[2] \in {"n", Quote, Backslash}
         THEN LET rest == Unescape(Tail(Tail(chars))) IN
                IF rest.ok
                THEN [ok |-> TRUE,
                      text |-> <<IF chars[2] = "n" THEN LF ELSE chars[2]>> \o rest.text]
                ELSE NoText
         ELSE NoText
    ELSE IF Head(chars) \in {Quote, LF}
    THEN NoText
    ELSE LET rest == Unescape(Tail(chars)) IN
           IF rest.ok THEN [ok |-> TRUE, text |-> <<Head(chars)>> \o rest.text]
           ELSE NoText

SyntaxError == [syntaxError |-> TRUE]

\* The usage values of a done frame.
Usages == {JsNull, Usage(2, 1, 3), Usage(5, 3, 8)}

\* JSON.parse on the text of a frame: the object of a chunk, done or error
\* frame, a SyntaxError for any other text.
JSON_parse(chars) ==
    LET open == <<"{">> \o Key("chunk") \o <<Quote>>
        n == Len(chars)
    IN
      IF /\ startsWith(chars, open)
         /\ n >= Len(open) + 2
         /\ chars[n - 1] = Quote /\ chars[n] = "}"
         /\ Unescape(SubSeq(chars, Len(open) + 1, n - 2)).ok
      THEN [chunk |-> Unescape(SubSeq(chars, Len(open) + 1, n - 2)).text]
      ELSE IF \E u \in Usages : chars = JSON_stringify([done |-> TRUE, usage |-> u])
      THEN [done |-> TRUE,
            usage |-> CHOOSE u \in Usages :
                         chars = JSON_stringify([done |-> TRUE, usage |-> u])]
      ELSE IF chars = JSON_stringify([error |-> MsgStreamError])
      THEN [error |-> MsgStreamError]
      ELSE SyntaxError

\* The text of the bubble after the catch block.
MsgSorry == <<"Sorry, something went wrong. Please try again.">>

\* sendMessage before its first read, with the bytes of the frames written
\* for it on their way: empty buffer and fullText, nothing parsed.
NewClient(payloads) ==
    [written |-> payloads, wire |-> Wire(payloads), pending |-> <<>>,
     buffer |-> <<>>, fullText |-> <<>>, display |-> <<>>, parsed |-> <<>>,
     state |-> "reading"]

RECURSIVE ForParts(_, _)
\* for (const part of parts): a part without the prefix or with a text that
\* does not parse is skipped; a chunk is appended to fullText and shown; an
\* error payload throws, and the catch block shows the apology.
ForParts(c, parts) ==
    IF parts = <<>> THEN c
    ELSE IF ~startsWith(Head(parts), DataPrefix) THEN ForParts(c, Tail(parts))
    ELSE LET payload == JSON_parse(SubSeq(Head(parts), Len(DataPrefix) + 1,
                                          Len(Head(parts))))
         IN
           IF payload = SyntaxError THEN ForParts(c, Tail(parts))
           ELSE LET shown ==
                      IF "chunk" \in DOMAIN payload /\ payload.chunk # <<>>
                      THEN [c EXCEPT !.fullText = @ \o payload.chunk,
                                     !.display = c.fullText \o payload.chunk,
                                     !.parsed = Append(@, payload)]
                      ELSE [c EXCEPT !.parsed = Append(@, payload)]
                IN
                  IF "error" \in DOMAIN payload
                  THEN [shown EXCEPT !.display = MsgSorry, !.state = "error"]
                  ELSE ForParts(shown, Tail(parts))

\* The loop body with the buffer replaced by each read instead of extended.
Receive_NoCarry(c, value) ==
    LET decoded == Utf8Decode(c.pending \o value, TRUE)
        parts == split(decoded.chars)
    IN
      ForParts([c EXCEPT !.pending = decoded.pending,
                         !.buffer = parts[Len(parts)]],
               SubSeq(parts, 1, Len(parts) - 1))

\* The body of the read loop on the bytes of one read:
\* buffer += decoder.decode(value, { stream: true }), the split, the last
\* piece kept as the buffer, the other pieces handled in order.
Receive(c, value) ==
    LET decoded == Utf8Decode(c.pending \o value, TRUE)
        parts == split(c.buffer \o decoded.chars)
    IN
      ForParts([c EXCEPT !.pending = decoded.pending,
                         !.buffer = parts[Len(parts)]],
               SubSeq(parts, 1, Len(parts) - 1))

\* ----------------------------------------------------------------- state
VARIABLES
    pc,           \* where each request's task is
    body,         \* req.body.message of each request
    res,          \* the response of each request
    nextErr,      \* the error handed to next(err), the error middleware's input
    sent,         \* the messages of the upstream request opened for the request
    usage,        \* the local `usage` of streamAIReply
    produced,     \* the items the upstream stream has delivered so far
    _tokenStats,  \* the process-wide usage accumulator
    steps,        \* the calls made for each request, in the order of the code
    origin,       \* the Origin header of each request
    ip,           \* the client IP of each request
    hits,         \* the rate limiter's store: requests counted per IP
    arrivals,     \* requests of each IP that reached the limiter in this window
    statsRes,     \* the body of the last GET /api/stats response
    statsAt,      \* the number of relays completed when it was read
    disconnected, \* what the relay had done when the client went away
    logged,       \* the access-log line written for each request
    client,       \* the chatbox client's sendMessage and the bytes on their way to it
    invalid       \* requests of each IP counted in this window and answered 400

\* The request before the chat router, the limiter's store.
edge == <<origin, ip, hits, arrivals>>

\* The stats endpoint, the client's connection and the access log.
aside == <<statsRes, statsAt, disconnected, logged, client>>

vars == <<pc, body, res, nextErr, sent, usage, produced, _tokenStats, steps,
          edge, aside, invalid>>

\* The client IPs.
IPs == {"10.0.0.1", "10.0.0.2"}

NoOrigin == JsUndefined
NoStats == [none |-> TRUE]
Connected == [none |-> TRUE]

NoRequest == [none |-> TRUE]
NoLog == [none |-> TRUE]

Init ==
    /\ pc = [r \in Reqs |-> "new"]
    /\ body = [r \in Reqs |-> NoRequest]
    /\ res = [r \in Reqs |-> NewResponse]
    /\ nextErr = [r \in Reqs |-> NoError]
    /\ sent = [r \in Reqs |-> <<>>]
    /\ usage = [r \in Reqs |-> JsNull]
    /\ produced = [r \in Reqs |-> <<>>]
    /\ _tokenStats = InitialTokenStats
    /\ steps = [r \in Reqs |-> <<>>]
    /\ origin = [r \in Reqs |-> NoOrigin]
    /\ ip = [r \in Reqs |-> "10.0.0.1"]
    /\ hits = [i \in IPs |-> 0]
    /\ arrivals = [i \in IPs |-> 0]
    /\ statsRes = NoStats
    /\ statsAt = 0
    /\ disconnected = [r \in Reqs |-> Connected]
    /\ logged = [r \in Reqs |-> NoLog]
    /\ client = NewClient(<<>>)
    /\ invalid = [i \in IPs |-> 0]

\* handleChat calling streamAIReply before it sets the SSE headers, which
\* would then wait for the upstream call to be open.
HandleChat_OpenFirst(r, message) ==
    /\ pc[r] = "new"
    /\ body' = [body EXCEPT ![r] = message]
    /\ LET err == Validate(message) IN
         IF err # NoError
         THEN /\ nextErr' = [nextErr EXCEPT ![r] = err]
              /\ res' = [res EXCEPT ![r] = json(@, ErrorStatus(err), ErrorBody(err))]
              /\ pc' = [pc EXCEPT ![r] = "rejected"]
              /\ steps' = [steps EXCEPT ![r] = @ \o <<"validate", "next">>]
              /\ UNCHANGED sent
         ELSE /\ sent' = [sent EXCEPT ![r] =
                            <<[role |-> "system", content |-> "OWNER_CONTEXT"],
                              [role |-> "user", content |-> Trim(message.runs)]>>]
              /\ pc' = [pc EXCEPT ![r] = "opening"]
              /\ steps' = [steps EXCEPT ![r] = @ \o <<"validate", "open">>]
              /\ UNCHANGED <<res, nextErr>>
    /\ UNCHANGED <<usage, produced, _tokenStats, edge, aside>>

\* handleChat setting and flushing the SSE headers before it validates.
HandleChat_HeadersFirst(r, message) ==
    /\ pc[r] = "new"
    /\ body' = [body EXCEPT ![r] = message]
    /\ LET err == Validate(message) IN
         IF err # NoError
         THEN /\ nextErr' = [nextErr EXCEPT ![r] = err]
              /\ res' = [res EXCEPT ![r] =
                            json(SetSseHeaders(@), ErrorStatus(err), ErrorBody(err))]
              /\ pc' = [pc EXCEPT ![r] = "rejected"]
              /\ steps' = [steps EXCEPT ![r] = @ \o <<"headers", "validate", "next">>]
              /\ UNCHANGED sent
         ELSE /\ res' = [res EXCEPT ![r] = SetSseHeaders(@)]
              /\ sent' = [sent EXCEPT ![r] =
                            <<[role |-> "system", content |-> "OWNER_CONTEXT"],
                              [role |-> "user", content |-> Trim(message.runs)]>>]
              /\ pc' = [pc EXCEPT ![r] = "opening"]
              /\ steps' = [steps EXCEPT ![r] = @ \o <<"headers", "validate", "open">>]
              /\ UNCHANGED nextErr
    /\ UNCHANGED <<usage, produced, _tokenStats, edge, aside>>

\* handleChat up to its first await: validation, then either next(err) and
\* the error middleware, or the SSE headers and the call of streamAIReply,
\* which opens the upstream request with the trimmed message.
HandleChat(r, message) ==
    /\ pc[r] = "new"
    /\ body' = [body EXCEPT ![r] = message]
    /\ LET err == Validate(message) IN
         IF err # NoError
         THEN /\ nextErr' = [nextErr EXCEPT ![r] = err]
              /\ res' = [res EXCEPT ![r] = json(@, ErrorStatus(err), ErrorBody(err))]
              /\ pc' = [pc EXCEPT ![r] = "rejected"]
              /\ steps' = [steps EXCEPT ![r] = @ \o <<"validate", "next">>]
              /\ UNCHANGED sent
         ELSE /\ res' = [res EXCEPT ![r] = SetSseHeaders(@)]
              /\ sent' = [sent EXCEPT ![r] =
                            <<[role |-> "system", content |-> "OWNER_CONTEXT"],
                              [role |-> "user", content |-> Trim(message.runs)]>>]
              /\ pc' = [pc EXCEPT ![r] = "opening"]
              /\ steps' = [steps EXCEPT ![r] = @ \o <<"validate", "headers", "open">>]
              /\ UNCHANGED nextErr
    /\ UNCHANGED <<usage, produced, _tokenStats, edge, aside>>

\* handleChat as the last handler of the route; the tally of the 400
\* answers is kept only where the limiter's quota is followed.
Handle(r, message) == HandleChat(r, message) /\ UNCHANGED invalid

\* await openai.chat.completions.create(...) resolves: let usage = null.
CreateResolves(r) ==
    /\ pc[r] = "opening"
    /\ usage' = [usage EXCEPT ![r] = JsNull]
    /\ pc' = [pc EXCEPT ![r] = "streaming"]
    /\ UNCHANGED <<body, res, nextErr, sent, produced, _tokenStats, steps, edge, aside, invalid>>

\* The number of times call occurs in a request's steps.
RECURSIVE Count(_, _)
Count(seq, call) ==
    IF seq = <<>> THEN 0
    ELSE (IF Head(seq) = call THEN 1 ELSE 0) + Count(Tail(seq), call)

\* The rejected create call tried once more before the error is raised.
CreateRejects_Retries(r) ==
    /\ pc[r] = "opening"
    /\ IF Count(steps[r], "open") < 2
       THEN /\ steps' = [steps EXCEPT ![r] = Append(@, "open")]
            /\ UNCHANGED <<pc, res, nextErr>>
       ELSE /\ res' = [res EXCEPT ![r] = CatchResponse(@, Err(MsgUpstream, 0))]
            /\ nextErr' = [nextErr EXCEPT ![r] = CatchNext(res[r], Err(MsgUpstream, 0))]
            /\ pc' = [pc EXCEPT ![r] = "failed"]
            /\ steps' = [steps EXCEPT ![r] = @ \o <<"catch", "close">>]
    /\ UNCHANGED <<body, sent, usage, produced, _tokenStats, edge, aside, invalid>>

\* The create call rejects: streamAIReply throws into handleChat's catch.
CreateRejects(r) ==
    /\ pc[r] = "opening"
    /\ res' = [res EXCEPT ![r] = CatchResponse(@, Err(MsgUpstream, 0))]
    /\ nextErr' = [nextErr EXCEPT ![r] = CatchNext(res[r], Err(MsgUpstream, 0))]
    /\ pc' = [pc EXCEPT ![r] = "failed"]
    /\ steps' = [steps EXCEPT ![r] = @ \o <<"catch", "close">>]
    /\ UNCHANGED <<body, sent, usage, produced, _tokenStats, edge, aside, invalid>>

RECURSIVE Delivered(_)
\* The number of items the streams of the requests in S have delivered.
Delivered(S) ==
    IF S = {} THEN 0
    ELSE LET r == CHOOSE x \in S : TRUE
         IN  Len(produced[r]) + Delivered(S \ {r})

\* One iteration of the for-await loop on the next item of the stream.
StreamChunk(r, chunk) ==
    /\ pc[r] = "streaming"
    /\ Delivered(Reqs) < MaxItems
    /\ produced' = [produced EXCEPT ![r] = Append(@, chunk)]
    /\ res' = [res EXCEPT ![r] = ForwardDelta(@, chunk)]
    /\ usage' = [usage EXCEPT ![r] = CaptureUsage(@, chunk)]
    /\ steps' = [steps EXCEPT ![r] = Append(@, "forward")]
    /\ UNCHANGED <<pc, body, nextErr, sent, _tokenStats, edge, aside, invalid>>

\* The loop raising with the usage recorded on the way out, as a finally
\* block would do.
StreamThrows_Records(r) ==
    /\ pc[r] = "streaming"
    /\ res' = [res EXCEPT ![r] = CatchResponse(@, Err(MsgUpstream, 0))]
    /\ nextErr' = [nextErr EXCEPT ![r] = CatchNext(res[r], Err(MsgUpstream, 0))]
    /\ _tokenStats' = _recordUsage(_tokenStats, usage[r])
    /\ pc' = [pc EXCEPT ![r] = "failed"]
    /\ steps' = [steps EXCEPT ![r] = @ \o <<"catch", "close">>]
    /\ UNCHANGED <<body, sent, usage, produced, edge, aside, invalid>>

\* The loop raises (the stream's iterator rejects, or an item has no
\* choices array): streamAIReply throws into handleChat's catch.
StreamThrows(r) ==
    /\ pc[r] = "streaming"
    /\ res' = [res EXCEPT ![r] = CatchResponse(@, Err(MsgUpstream, 0))]
    /\ nextErr' = [nextErr EXCEPT ![r] = CatchNext(res[r], Err(MsgUpstream, 0))]
    /\ pc' = [pc EXCEPT ![r] = "failed"]
    /\ steps' = [steps EXCEPT ![r] = @ \o <<"catch", "close">>]
    /\ UNCHANGED <<body, sent, usage, produced, _tokenStats, edge, aside, invalid>>

\* The usage recorded before the done frame is written.
StreamEnds_RecordFirst(r) ==
    /\ pc[r] = "streaming"
    /\ res' = [res EXCEPT ![r] = FinishStream(@, usage[r])]
    /\ _tokenStats' = _recordUsage(_tokenStats, usage[r])
    /\ pc' = [pc EXCEPT ![r] = "returned"]
    /\ steps' = [steps EXCEPT ![r] = @ \o <<"record", "done", "close">>]
    /\ UNCHANGED <<body, nextErr, sent, usage, produced, edge, aside, invalid>>

\* The stream is exhausted: done frame, res.end(), _recordUsage(usage),
\* return usage.
StreamEnds(r) ==
    /\ pc[r] = "streaming"
    /\ res' = [res EXCEPT ![r] = FinishStream(@, usage[r])]
    /\ _tokenStats' = _recordUsage(_tokenStats, usage[r])
    /\ pc' = [pc EXCEPT ![r] = "returned"]
    /\ steps' = [steps EXCEPT ![r] = @ \o <<"done", "close", "record">>]
    /\ UNCHANGED <<body, nextErr, sent, usage, produced, edge, aside, invalid>>

\* handleChat resumes after the await: res.locals.tokenUsage = usage.
SetTokenUsage(r) ==
    /\ pc[r] = "returned"
    /\ res' = [res EXCEPT ![r].tokenUsage = usage[r]]
    /\ pc' = [pc EXCEPT ![r] = "done"]
    /\ UNCHANGED <<body, nextErr, sent, usage, produced, _tokenStats, steps, edge, aside, invalid>>

\* The steps of streamAIReply and of handleChat after its first await.
Relay(r) ==
    \/ CreateResolves(r)
    \/ CreateRejects(r)
    \/ \E chunk \in StreamItems : StreamChunk(r, chunk)
    \/ StreamThrows(r)
    \/ StreamEnds(r)
    \/ SetTokenUsage(r)

\* The values of req.body.message that are not strings.
NonStringBodies ==
    {JsUndefined, JsNull, JsNumber(0), JsNumber(7), JsBoolean(FALSE),
     JsBoolean(TRUE), JsObject, JsArray}

\* Every string of at most MaxRuns runs.
StringBodies == {JsString(runs) : runs \in SeqsUpTo(Runs, MaxRuns)}

AllBodies == NonStringBodies \cup StringBodies

\* A few bodies, one of each outcome of the validation.
SomeBodies ==
    { JsUndefined,
      JsString(<<[k |-> "ws", n |-> 1]>>),
      JsString(<<[k |-> "ch", n |-> MaxMessageLength + 1]>>),
      JsString(<<[k |-> "ws", n |-> 1], [k |-> "ch", n |-> 1], [k |-> "ws", n |-> 1]>>) }

\* ------------------------------------------------- server.js, the edge
\* cors.config.js: FRONTEND_URL is not set, so the list is the default.
allowedOrigins == {"http://localhost:5173"}

\* An Origin header with this text.
OriginHeader(text) == [t |-> "string", text |-> text]

\* The Origin headers a request can carry: none, empty, allowed, foreign.
Origins ==
    {NoOrigin, OriginHeader(""), OriginHeader("http://localhost:5173"),
     OriginHeader("http://evil.example")}

\* corsOptions.origin: accepts when !origin or when the list includes the
\* origin, with an Error otherwise.
corsOrigin_ListOnly(o) ==
    IF o.t = "string" /\ o.text \in allowedOrigins
    THEN NoError
    ELSE Err("CORS: origin is not allowed", 0)

corsOrigin(o) ==
    IF o.t = "undefined" \/ (o.t = "string" /\ o.text = "")
    THEN NoError
    ELSE IF o.text \in allowedOrigins
    THEN NoError
    ELSE Err("CORS: origin '" \o o.text \o "' is not allowed", 0)

\* chat.routes.js: max: 100
RateLimitMax == 100
\* The message of chatLimiter; its dash is written "--" here.
MsgRateLimit == "Too many requests -- please try again in a few minutes."

\* chatLimiter: the request with this hit number is over the limit.
OverLimit_Inclusive(totalHits) == totalHits >= RateLimitMax

OverLimit(totalHits) == totalHits > RateLimitMax

\* The state in which every request is still in front of the middleware.
InitEdge ==
    /\ pc = [r \in Reqs |-> "arrived"]
    /\ body = [r \in Reqs |-> NoRequest]
    /\ res = [r \in Reqs |-> NewResponse]
    /\ nextErr = [r \in Reqs |-> NoError]
    /\ sent = [r \in Reqs |-> <<>>]
    /\ usage = [r \in Reqs |-> JsNull]
    /\ produced = [r \in Reqs |-> <<>>]
    /\ _tokenStats = InitialTokenStats
    /\ steps = [r \in Reqs |-> <<>>]
    /\ origin = [r \in Reqs |-> NoOrigin]
    /\ ip = [r \in Reqs |-> "10.0.0.1"]
    /\ hits = [i \in IPs |-> 0]
    /\ arrivals = [i \in IPs |-> 0]
    /\ statsRes = NoStats
    /\ statsAt = 0
    /\ disconnected = [r \in Reqs |-> Connected]
    /\ logged = [r \in Reqs |-> NoLog]
    /\ client = NewClient(<<>>)
    /\ invalid = [i \in IPs |-> 0]

\* app.use(cors(corsOptions)): a refused origin goes through next(err) to
\* the error middleware; express.json and the logger follow otherwise.
Cors(r, o) ==
    /\ pc[r] = "arrived"
    /\ origin' = [origin EXCEPT ![r] = o]
    /\ LET err == corsOrigin(o) IN
         IF err # NoError
         THEN /\ nextErr' = [nextErr EXCEPT ![r] = err]
              /\ res' = [res EXCEPT ![r] = json(@, ErrorStatus(err), ErrorBody(err))]
              /\ pc' = [pc EXCEPT ![r] = "corsRejected"]
         ELSE /\ pc' = [pc EXCEPT ![r] = "limiter"]
              /\ UNCHANGED <<res, nextErr>>
    /\ UNCHANGED <<body, sent, usage, produced, _tokenStats, steps, ip, hits,
                   arrivals, aside, invalid>>

\* chatLimiter: counts the request for its IP and answers 429 with the
\* configured message when the count is over max, else calls handleChat.
Limiter(r, i) ==
    /\ pc[r] = "limiter"
    /\ arrivals[i] < MaxHits
    /\ ip' = [ip EXCEPT ![r] = i]
    /\ hits' = [hits EXCEPT ![i] = @ + 1]
    /\ arrivals' = [arrivals EXCEPT ![i] = @ + 1]
    /\ IF OverLimit(hits[i] + 1)
       THEN /\ res' = [res EXCEPT ![r] = json(@, 429, [error |-> MsgRateLimit])]
            /\ pc' = [pc EXCEPT ![r] = "limited"]
       ELSE /\ pc' = [pc EXCEPT ![r] = "new"]
            /\ UNCHANGED res
    /\ UNCHANGED <<body, nextErr, sent, usage, produced, _tokenStats, steps,
                   origin, aside, invalid>>

\* windowMs has passed for the IP: its count starts again.
WindowExpires(i) ==
    /\ arrivals[i] > 0
    /\ hits' = [hits EXCEPT ![i] = 0]
    /\ arrivals' = [arrivals EXCEPT ![i] = 0]
    /\ invalid' = [invalid EXCEPT ![i] = 0]
    /\ UNCHANGED <<pc, body, res, nextErr, sent, usage, produced, _tokenStats,
                   steps, origin, ip, aside>>

\* The limiter configured with skipFailedRequests: the unit of a request
\* answered with a status of 400 or more is given back when it is over.
NextRequest_SkipFailed(r) ==
    /\ pc[r] \in {"corsRejected", "limited", "rejected", "failed", "done"}
    /\ pc' = [pc EXCEPT ![r] = "arrived"]
    /\ body' = [body EXCEPT ![r] = NoRequest]
    /\ res' = [res EXCEPT ![r] = NewResponse]
    /\ nextErr' = [nextErr EXCEPT ![r] = NoError]
    /\ sent' = [sent EXCEPT ![r] = <<>>]
    /\ usage' = [usage EXCEPT ![r] = JsNull]
    /\ produced' = [produced EXCEPT ![r] = <<>>]
    /\ steps' = [steps EXCEPT ![r] = <<>>]
    /\ origin' = [origin EXCEPT ![r] = NoOrigin]
    /\ ip' = [ip EXCEPT ![r] = "10.0.0.1"]
    /\ hits' = IF pc[r] # "corsRejected" /\ res[r].statusCode >= 400 /\ hits[ip[r]] > 0
               THEN [hits EXCEPT ![ip[r]] = @ - 1]
               ELSE hits
    /\ UNCHANGED <<_tokenStats, arrivals, aside, invalid>>

\* The request is over; the next request of the run takes its place.
NextRequest(r) ==
    /\ pc[r] \in {"corsRejected", "limited", "rejected", "failed", "done"}
    /\ pc' = [pc EXCEPT ![r] = "arrived"]
    /\ body' = [body EXCEPT ![r] = NoRequest]
    /\ res' = [res EXCEPT ![r] = NewResponse]
    /\ nextErr' = [nextErr EXCEPT ![r] = NoError]
    /\ sent' = [sent EXCEPT ![r] = <<>>]
    /\ usage' = [usage EXCEPT ![r] = JsNull]
    /\ produced' = [produced EXCEPT ![r] = <<>>]
    /\ steps' = [steps EXCEPT ![r] = <<>>]
    /\ origin' = [origin EXCEPT ![r] = NoOrigin]
    /\ ip' = [ip EXCEPT ![r] = "10.0.0.1"]
    /\ UNCHANGED <<_tokenStats, hits, arrivals, aside, invalid>>

\* One connection, its requests one after the other, through the whole
\* middleware chain; the upstream is down.
NextEdge ==
    \/ \E o \in Origins : Cors(1, o)
    \/ \E i \in IPs : Limiter(1, i)
    \/ \E message \in SomeBodies : Handle(1, message)
    \/ CreateRejects(1)
    \/ NextRequest(1)
    \/ \E i \in IPs : WindowExpires(i)

SpecEdge == InitEdge /\ [][NextEdge]_vars

\* handleChat on a request the limiter passed on, and the tally of the
\* requests of the IP that the validation answered 400. A request whose
\* window expired while it was on its way belongs to no current window.
Validated(r, message) ==
    /\ HandleChat(r, message)
    /\ invalid' = IF pc'[r] = "rejected" /\ arrivals[ip[r]] > 0
                  THEN [invalid EXCEPT ![ip[r]] = @ + 1]
                  ELSE invalid

\* One client, its requests one after the other with every outcome of the
\* route: 429, 400, a failure to open the upstream call, a failure of the
\* stream, and success on an upstream stream that carries no item.
NextQuota ==
    \/ Cors(1, NoOrigin)
    \/ Limiter(1, "10.0.0.1")
    \/ \E message \in SomeBodies : Validated(1, message)
    \/ CreateResolves(1)
    \/ CreateRejects(1)
    \/ StreamThrows(1)
    \/ StreamEnds(1)
    \/ SetTokenUsage(1)
    \/ NextRequest(1)
    \/ WindowExpires("10.0.0.1")

SpecQuota == InitEdge /\ [][NextQuota]_vars

\* Concurrent chat requests.
Next ==
    \E r \in Reqs :
        \/ \E message \in SomeBodies : Handle(r, message)
        \/ Relay(r)

Spec == Init /\ [][Next]_vars

\* The synchronous part of handleChat on one chat request, every body.
NextOne == \E message \in AllBodies : Handle(1, message)

SpecOne == Init /\ [][NextOne]_vars

\* getTokenStats(): { ..._tokenStats }, a copy of the four counters.
getTokenStats(stats) == [f \in DOMAIN stats |-> stats[f]]

\* GET /api/stats counting itself as a request.
GetStats_CountsItself ==
    /\ _tokenStats' = [_tokenStats EXCEPT !.totalRequests = @ + 1]
    /\ statsRes' = getTokenStats(_tokenStats')
    /\ statsAt' = Cardinality({r \in Reqs : pc[r] \in {"returned", "done"}})
    /\ UNCHANGED <<pc, body, res, nextErr, sent, usage, produced, steps,
                   edge, disconnected, logged, client, invalid>>

\* GET /api/stats: res.json(getTokenStats()).
GetStats ==
    /\ statsRes' = getTokenStats(_tokenStats)
    /\ statsAt' = Cardinality({r \in Reqs : pc[r] \in {"returned", "done"}})
    /\ UNCHANGED <<pc, body, res, nextErr, sent, usage, produced, _tokenStats, steps,
                   edge, disconnected, logged, client, invalid>>

\* Chat requests and reads of the stats endpoint.
NextStats == Next \/ GetStats

SpecStats == Init /\ [][NextStats]_vars

\* The client closes the connection while the relay is running. Nothing in
\* handleChat or streamAIReply listens for it; what the relay had done by
\* then is kept.
ClientDisconnects(r) ==
    /\ pc[r] \in {"opening", "streaming"}
    /\ disconnected[r] = Connected
    /\ disconnected' = [disconnected EXCEPT ![r] =
                           [items |-> Len(produced[r]), frames |-> Len(res[r].out),
                            usage |-> usage[r]]]
    /\ UNCHANGED <<pc, body, res, nextErr, sent, usage, produced, _tokenStats, steps,
                   edge, statsRes, statsAt, logged, client, invalid>>

\* Chat requests whose clients can go away.
NextDrop == Next \/ \E r \in Reqs : ClientDisconnects(r)

SpecDrop == Init /\ [][NextDrop]_vars

\* Every step of a request that can be taken is eventually taken: the event
\* loop runs each continuation, and the upstream call completes or raises.
Fairness == \A r \in Reqs : WF_vars(Relay(r))

FairSpec == Spec /\ Fairness

\* ---------------------------------------------- logger.middleware.js
NoTokens == [none |-> TRUE]

\* The line of the 'finish' handler: the status and tokenStr, which is the
\* three counts of res.locals.tokenUsage when that is truthy, else empty.
LogLine(rs) ==
    [status |-> rs.statusCode,
     tokens |-> IF Falsy(rs.tokenUsage)
                THEN NoTokens
                ELSE [prompt |-> rs.tokenUsage.prompt_tokens,
                      completion |-> rs.tokenUsage.completion_tokens,
                      total |-> rs.tokenUsage.total_tokens]]

\* The continuations of `await streamAIReply(...)` that are queued as
\* promise jobs: streamAIReply has returned, handleChat has not resumed.
PromiseJobs == {q \in Reqs : pc[q] = "returned"}

\* The line written when res.end() is called instead of on 'finish'.
Finish_AtEnd(r) ==
    /\ res[r].ended
    /\ logged[r] = NoLog
    /\ logged' = [logged EXCEPT ![r] = LogLine(res[r])]
    /\ UNCHANGED <<pc, body, res, nextErr, sent, usage, produced, _tokenStats, steps,
                   edge, statsRes, statsAt, disconnected, client, invalid>>

\* The 'finish' handler registered by loggerMiddleware. The response emits
\* 'finish' once, from a process.nextTick or socket-write callback queued
\* by res.end(); Node runs those only when no promise job is left.
Finish(r) ==
    /\ res[r].ended
    /\ PromiseJobs = {}
    /\ logged[r] = NoLog
    /\ logged' = [logged EXCEPT ![r] = LogLine(res[r])]
    /\ UNCHANGED <<pc, body, res, nextErr, sent, usage, produced, _tokenStats, steps,
                   edge, statsRes, statsAt, disconnected, client, invalid>>

\* Concurrent chat requests and their access-log lines.
NextLog == Next \/ \E r \in Reqs : Finish(r)

SpecLog == Init /\ [][NextLog]_vars

\* ----------------------------------------- the client's read loop
\* The texts of the chunk frames: an ordinary character, a blank line, a
\* quote and a backslash, a two-byte character, a backslash before an n.
SomeTexts ==
    { <<"a">>, <<LF, LF>>, <<Quote, Backslash>>, <<EAcute>>, <<Backslash, "n">> }

\* The frames of a response: chunk frames, then the done frame written by
\* streamAIReply or the error frame written by handleChat.
Responses ==
    { chunks \o <<last>> :
        chunks \in SeqsUpTo({[chunk |-> text] : text \in SomeTexts}, MaxFrames),
        last \in {[done |-> TRUE, usage |-> JsNull],
                  [done |-> TRUE, usage |-> Usage(2, 1, 3)],
                  [error |-> MsgStreamError]} }

\* A response has been written; the client has read nothing of it yet.
InitWire ==
    /\ pc = [r \in Reqs |-> "new"]
    /\ body = [r \in Reqs |-> NoRequest]
    /\ res = [r \in Reqs |-> NewResponse]
    /\ nextErr = [r \in Reqs |-> NoError]
    /\ sent = [r \in Reqs |-> <<>>]
    /\ usage = [r \in Reqs |-> JsNull]
    /\ produced = [r \in Reqs |-> <<>>]
    /\ _tokenStats = InitialTokenStats
    /\ steps = [r \in Reqs |-> <<>>]
    /\ origin = [r \in Reqs |-> NoOrigin]
    /\ ip = [r \in Reqs |-> "10.0.0.1"]
    /\ hits = [i \in IPs |-> 0]
    /\ arrivals = [i \in IPs |-> 0]
    /\ statsRes = NoStats
    /\ statsAt = 0
    /\ disconnected = [r \in Reqs |-> Connected]
    /\ logged = [r \in Reqs |-> NoLog]
    /\ invalid = [i \in IPs |-> 0]
    /\ client \in {NewClient(payloads) : payloads \in Responses}

\* await reader.read() returns the next n bytes; the loop body handles them.
Read(n) ==
    /\ client.state = "reading"
    /\ n \in 1..Len(client.wire)
    /\ client' = [Receive(client, SubSeq(client.wire, 1, n))
                    EXCEPT !.wire = SubSeq(client.wire, n + 1, Len(client.wire))]
    /\ UNCHANGED <<pc, body, res, nextErr, sent, usage, produced, _tokenStats, steps,
                   edge, statsRes, statsAt, disconnected, logged, invalid>>

\* await reader.read() returns done: the loop is left.
ReadDone ==
    /\ client.state = "reading"
    /\ client.wire = <<>>
    /\ client' = [client EXCEPT !.state = "done"]
    /\ UNCHANGED <<pc, body, res, nextErr, sent, usage, produced, _tokenStats, steps,
                   edge, statsRes, statsAt, disconnected, logged, invalid>>

\* The reads of one response, of any sizes.
NextWire ==
    \/ \E n \in 1..Len(client.wire) : Read(n)
    \/ ReadDone

SpecWire == InitWire /\ [][NextWire]_vars

\* ======================================================================
\* Properties
\* ======================================================================

\* The relay of request r completed on the success path.
Succeeded(r) == pc[r] \in {"returned", "done"}

\* The request passed validation.
Accepted(r) == pc[r] \notin {"new", "rejected"}

\* The non-empty text fragments among the items of a stream, in order.
RECURSIVE Fragments(_)
Fragments(items) ==
    IF items = <<>> THEN <<>>
    ELSE LET c == Head(items).content
         IN  IF c.t = "string" /\ c.runs # <<>>
             THEN <<c>> \o Fragments(Tail(items))
             ELSE Fragments(Tail(items))

\* The payloads of the chunk frames of a response body, in order.
RECURSIVE ChunkPayloads(_)
ChunkPayloads(out) ==
    IF out = <<>> THEN <<>>
    ELSE IF "chunk" \in DOMAIN Head(out).data
         THEN <<Head(out).data.chunk>> \o ChunkPayloads(Tail(out))
         ELSE ChunkPayloads(Tail(out))

\* C1: when a relay completes without error, the chunk frames written to
\* its response are exactly the non-empty text fragments of the upstream
\* stream, one frame per fragment and in the same order; an item with an
\* empty or absent fragment gives no frame.
C1_ChunkFramesAreTheFragments ==
    \A r \in Reqs :
        Succeeded(r) => ChunkPayloads(res[r].out) = Fragments(produced[r])

\* A relay completed on a stream that mixes a fragment with an item that
\* has none.
C1_Witness ==
    \E r \in Reqs :
        /\ pc[r] = "done"
        /\ Len(Fragments(produced[r])) >= 1
        /\ Len(Fragments(produced[r])) < Len(produced[r])

\* The number of done frames of a response body.
RECURSIVE DoneCount(_)
DoneCount(out) ==
    IF out = <<>> THEN 0
    ELSE (IF "done" \in DOMAIN Head(out).data THEN 1 ELSE 0) + DoneCount(Tail(out))

\* C2: a successful relay writes exactly one done frame, as the last
\* frame, the response is ended, and nothing is written to the response
\* after it has been ended.
C2_OneDoneFrameLast ==
    \A r \in Reqs :
        Succeeded(r) =>
            /\ DoneCount(res[r].out) = 1
            /\ res[r].out[Len(res[r].out)].data = [done |-> TRUE, usage |-> usage[r]]
            /\ res[r].ended
            /\ ~res[r].writeAfterEnd

\* A relay completed after forwarding a fragment, and the controller has
\* run to its end.
C2_Witness ==
    \E r \in Reqs : pc[r] = "done" /\ Len(res[r].out) >= 2 /\ res[r].ended

\* The usage summary of a stream: the last one it supplied, or null.
RECURSIVE LastUsage(_)
LastUsage(items) ==
    IF items = <<>> THEN JsNull
    ELSE IF items[Len(items)].usage.t = "object"
         THEN items[Len(items)].usage
         ELSE LastUsage(SubSeq(items, 1, Len(items) - 1))

\* The relays that completed successfully with a usage summary.
Summarised == {r \in Reqs : Succeeded(r) /\ LastUsage(produced[r]) # JsNull}

RECURSIVE SumOver(_, _)
\* The sum of field f of the usage summaries of the requests in S.
SumOver(S, f) ==
    IF S = {} THEN 0
    ELSE LET r == CHOOSE x \in S : TRUE
         IN  LastUsage(produced[r])[f] + SumOver(S \ {r}, f)

\* C3: in every reachable state the four counters are the number of relays
\* that completed successfully with a usage summary and the sums of the
\* prompt, completion and total token counts of those summaries.
C3_TotalsAreTheSums ==
    /\ _tokenStats.totalRequests = Cardinality(Summarised)
    /\ _tokenStats.promptTokens = SumOver(Summarised, "prompt_tokens")
    /\ _tokenStats.completionTokens = SumOver(Summarised, "completion_tokens")
    /\ _tokenStats.totalTokens = SumOver(Summarised, "total_tokens")

\* Two relays completed with different usage summaries.
C3_Witness ==
    /\ Cardinality(Summarised) = 2
    /\ \E r1, r2 \in Summarised : LastUsage(produced[r1]) # LastUsage(produced[r2])

\* C4: a step that is not the successful completion of a relay leaves the
\* four counters unchanged: a request that fails validation, whose
\* upstream call cannot be opened, or whose forwarding loop raises, never
\* changes them, also when the loop had already received a usage summary.
C4_FailureLeavesCounters ==
    [][(\A r \in Reqs : pc'[r] = "returned" => pc[r] = "returned")
          => _tokenStats' = _tokenStats]_vars

\* A relay failed after a usage summary had been received.
C4_Witness ==
    \E r \in Reqs : pc[r] = "failed" /\ usage[r] # JsNull

\* C5, as stated: totalRequests always equals the number of completed
\* relays.
C5_Original ==
    _tokenStats.totalRequests = Cardinality({r \in Reqs : Succeeded(r)})

\* C5, amended: the completion of a relay adds exactly 1 to totalRequests
\* when the stream supplied a usage summary and leaves the four counters
\* unchanged when it supplied none.
C5_OncePerSummarisedRelay ==
    [][\A r \in Reqs :
          (pc[r] = "streaming" /\ pc'[r] = "returned") =>
              IF LastUsage(produced[r]) = JsNull
              THEN _tokenStats' = _tokenStats
              ELSE _tokenStats'.totalRequests = _tokenStats.totalRequests + 1]_vars

\* One relay completed with a usage summary and another without one.
C5_Witness ==
    \E r1, r2 \in Reqs :
        /\ Succeeded(r1) /\ LastUsage(produced[r1]) # JsNull
        /\ Succeeded(r2) /\ LastUsage(produced[r2]) = JsNull
        /\ _tokenStats.totalRequests = 1

\* The headers handleChat sets before it streams.
SseHeaders ==
    { <<"Content-Type", "text/event-stream">>, <<"Cache-Control", "no-cache">>,
      <<"Connection", "keep-alive">>, <<"X-Accel-Buffering", "no">> }

\* The number of error frames of a response body.
RECURSIVE ErrorCount(_)
ErrorCount(out) ==
    IF out = <<>> THEN 0
    ELSE (IF "error" \in DOMAIN Head(out).data THEN 1 ELSE 0) + ErrorCount(Tail(out))

\* C6: when the upstream call fails or the loop raises after the SSE
\* headers were sent, the response gets exactly one error frame, as its
\* last frame, and is ended; it has no done frame, the error is not handed
\* to the error middleware, and the status and the headers stay as sent.
C6_ErrorFrameInBand ==
    \A r \in Reqs :
        pc[r] = "failed" =>
            /\ ErrorCount(res[r].out) = 1
            /\ res[r].out[Len(res[r].out)].data = [error |-> MsgStreamError]
            /\ DoneCount(res[r].out) = 0
            /\ res[r].ended /\ ~res[r].writeAfterEnd
            /\ nextErr[r] = NoError
            /\ res[r].json = NoJson
            /\ res[r].statusCode = 200
            /\ res[r].headers = SseHeaders

\* A relay failed in the middle of the stream, after a chunk frame.
C6_Witness ==
    \E r \in Reqs : pc[r] = "failed" /\ Len(res[r].out) >= 2

\* The response is ended and its last frame is the done or the error frame.
Terminated(r) ==
    /\ res[r].ended
    /\ res[r].out # <<>>
    /\ DOMAIN res[r].out[Len(res[r].out)].data \in {{"done", "usage"}, {"error"}}

\* C7: every request that passed validation is eventually ended with the
\* done frame or an error frame as its last frame, and a streaming
\* response is never ended without one of them.
C7_TerminalFrame ==
    /\ \A r \in Reqs : (pc[r] = "opening") ~> Terminated(r)
    /\ [](\A r \in Reqs : (Accepted(r) /\ res[r].ended) => Terminated(r))

\* One response ended with the done frame and another with an error frame.
C7_Witness ==
    \E r1, r2 \in Reqs :
        /\ pc[r1] = "done" /\ Terminated(r1)
        /\ pc[r2] = "failed" /\ Terminated(r2)

\* Every character of the string is whitespace.
WhitespaceOnly(runs) == \A i \in 1..Len(runs) : runs[i].k = "ws"

\* The request was answered with this status and JSON error message.
AnsweredWith(r, statusCode, message) ==
    /\ res[r].statusCode = statusCode
    /\ res[r].json = [error |-> message]
    /\ res[r].ended

\* C8: every request whose message is a whitespace-only string, of any
\* length including zero, is answered 400 '"message" must not be blank.'.
C8_BlankMessage ==
    \A r \in Reqs :
        (pc[r] # "new" /\ body[r].t = "string" /\ WhitespaceOnly(body[r].runs))
            => AnsweredWith(r, 400, MsgBlank)

\* The characters of the string from its first to its last non-whitespace
\* character (the string has one).
Core(runs) ==
    LET ch == {i \in 1..Len(runs) : runs[i].k = "ch"}
        first == CHOOSE i \in ch : \A j \in ch : i <= j
        last == CHOOSE i \in ch : \A j \in ch : j <= i
    IN  SubSeq(runs, first, last)

RECURSIVE Characters(_)
\* The number of characters of a string.
Characters(runs) ==
    IF runs = <<>> THEN 0 ELSE runs[1].n + Characters(SubSeq(runs, 2, Len(runs)))

C10_MissingMessage ==
    \A r \in Reqs :
        (pc[r] # "new" /\ body[r].t # "string") =>
            /\ AnsweredWith(r, 400, MsgMissing)
            /\ nextErr[r] = [message |-> MsgMissing, statusCode |-> 400]
            /\ pc[r] = "rejected"

\* A request whose message is a non-zero number, or an object, was
\* rejected.
C10_Witness ==
    \E r \in Reqs :
        /\ pc[r] = "rejected"
        /\ body[r].t \in {"number", "object", "array", "boolean"}
        /\ ~Falsy(body[r])

\* C11: a validation failure is reported before any streaming has begun:
\* no SSE header is set, no frame is written, and the error went through
\* next() to the error middleware, which answered 400 {error: <message>}.
C11_RejectedBeforeStreaming ==
    \A r \in Reqs :
        pc[r] = "rejected" =>
            /\ res[r].headers \cap SseHeaders = {}
            /\ res[r].out = <<>>
            /\ steps[r] = <<"validate", "next">>
            /\ nextErr[r] \in {Err(MsgMissing, 400), Err(MsgBlank, 400), Err(MsgTooLong, 400)}
            /\ res[r].statusCode = 400
            /\ res[r].json = [error |-> nextErr[r].message]
            /\ res[r].headers = {<<"Content-Type", "application/json">>}
            /\ sent[r] = <<>>

\* A message that is too long was rejected.
C11_Witness ==
    \E r \in Reqs : pc[r] = "rejected" /\ nextErr[r] = Err(MsgTooLong, 400)

\* C12: exactly one upstream request is opened for every request that
\* passed validation, none for a rejected request, and none again after a
\* failure.
C12_OneUpstreamAttempt ==
    \A r \in Reqs :
        Count(steps[r], "open") = IF Accepted(r) THEN 1 ELSE 0

\* One request was rejected and the relay of another failed.
C12_Witness ==
    \E r1, r2 \in Reqs : pc[r1] = "rejected" /\ pc[r2] = "failed"

\* C13: in one window the first 100 requests of an IP that reach the
\* limiter are passed on to handleChat, and the 101st and every later one
\* is answered 429 with the fixed message without reaching the validator,
\* the upstream or the accumulator; after the window has expired the count
\* starts again.
C13_RateLimit ==
    \A r \in Reqs :
        (pc[r] \notin {"arrived", "corsRejected", "limiter"} /\ arrivals[ip[r]] > 0) =>
            IF arrivals[ip[r]] <= 100
            THEN pc[r] # "limited" /\ res[r].statusCode # 429
            ELSE /\ pc[r] = "limited"
                 /\ res[r].statusCode = 429
                 /\ res[r].json = [error |-> MsgRateLimit]
                 /\ res[r].ended
                 /\ body[r] = NoRequest
                 /\ steps[r] = <<>>
                 /\ sent[r] = <<>>
                 /\ _tokenStats = InitialTokenStats

\* The 101st request of an IP in a window was answered 429 while the other
\* IP has requests left.
C13_Witness ==
    \E r \in Reqs :
        /\ pc[r] = "limited"
        /\ arrivals[ip[r]] = 101
        /\ \E i \in IPs : arrivals[i] < 100

\* C14: GET /api/stats never changes a counter, and a read that follows
\* another with no relay completed between them returns the same values.
C14_StatsReadOnly ==
    [][(<<statsRes, statsAt>>' # <<statsRes, statsAt>>) =>
          /\ _tokenStats' = _tokenStats
          /\ statsRes' = _tokenStats
          /\ (statsRes # NoStats /\ statsAt' = statsAt) => statsRes' = statsRes]_vars

\* The stats were read after a relay had completed with a usage summary.
C14_Witness ==
    /\ statsRes # NoStats
    /\ statsAt >= 1
    /\ statsRes.totalTokens > 0

\* The request was refused by the CORS step: a JSON error, the body not
\* parsed, the limiter and the validator not reached.
CorsRefused(r) ==
    /\ pc[r] = "corsRejected"
    /\ res[r].json = [error |-> "CORS: origin '" \o origin[r].text \o "' is not allowed"]
    /\ res[r].statusCode = 500
    /\ body[r] = NoRequest
    /\ steps[r] = <<>>

\* C16, as stated: a request gets past the CORS step exactly when it has no
\* Origin header or its Origin is one of the allowed origins.
C16_Original ==
    \A r \in Reqs :
        pc[r] # "arrived" =>
            IF origin[r] = NoOrigin \/ origin[r].text \in allowedOrigins
            THEN pc[r] # "corsRejected"
            ELSE CorsRefused(r)

\* C16, amended: a request gets past the CORS step exactly when it has no
\* Origin header, an empty Origin header, or an Origin that is one of the
\* allowed origins; any other is refused with a JSON error before the body
\* is parsed.
C16_CorsGate ==
    \A r \in Reqs :
        pc[r] # "arrived" =>
            IF \/ origin[r] = NoOrigin
               \/ origin[r].text = ""
               \/ origin[r].text \in allowedOrigins
            THEN pc[r] # "corsRejected"
            ELSE CorsRefused(r)

\* A request without an Origin header has passed the limiter and reached
\* handleChat.
C16_Witness ==
    \E r \in Reqs :
        /\ origin[r] = NoOrigin
        /\ pc[r] \in {"rejected", "opening"}
        /\ arrivals[ip[r]] >= 1

\* The counters that the usage summaries of the relays in S add up to.
TotalsOf(S) ==
    [totalRequests |-> Cardinality(S),
     promptTokens |-> SumOver(S, "prompt_tokens"),
     completionTokens |-> SumOver(S, "completion_tokens"),
     totalTokens |-> SumOver(S, "total_tokens")]

\* C17: with the requests interleaved in any order no update is lost: when
\* all of them are over the counters are the sums over the relays that
\* completed with a summary, and what a stats read returned is always the
\* whole contribution of some of those relays, never a part of one.
C17_NoLostUpdate ==
    /\ (\A r \in Reqs : pc[r] \in {"rejected", "failed", "done"})
          => _tokenStats = TotalsOf(Summarised)
    /\ statsRes # NoStats => \E S \in SUBSET Summarised : statsRes = TotalsOf(S)

\* Two relays have completed with summaries and the stats were read when
\* only one of them had.
C17_Witness ==
    /\ \A r \in Reqs : pc[r] = "done"
    /\ _tokenStats.totalRequests = 2
    /\ statsRes # NoStats
    /\ statsRes.totalRequests = 1

\* C15: after the client has disconnected the relay forwards no further
\* fragment, takes no further item from the upstream, and does not record
\* usage unless a summary had been captured by then.
C15_StopsOnDisconnect ==
    \A r \in Reqs :
        disconnected[r] # Connected =>
            /\ Len(res[r].out) = disconnected[r].frames
            /\ Len(produced[r]) = disconnected[r].items
            /\ disconnected[r].usage = JsNull => r \notin Summarised

\* C18: every frame is written on a response whose SSE headers had been set
\* and flushed before.
C18_HeadersBeforeFrames ==
    [][\A r \in Reqs :
          Len(res'[r].out) > Len(res[r].out) =>
              /\ res[r].headersSent
              /\ SseHeaders \subseteq res[r].headers
              /\ Count(steps[r], "headers") = 1]_vars

\* A response has a chunk frame and its terminal frame.
C18_Witness ==
    \E r \in Reqs :
        /\ Len(res[r].out) = 2
        /\ "chunk" \in DOMAIN res[r].out[1].data
        /\ res[r].ended

\* The place of the first occurrence of call in the steps, 0 if none.
RECURSIVE Place(_, _)
Place(seq, call) ==
    IF seq = <<>> THEN 0
    ELSE IF Head(seq) = call THEN 1
    ELSE IF Place(Tail(seq), call) = 0 THEN 0
    ELSE 1 + Place(Tail(seq), call)

\* C19, as stated: the usage is recorded before the response is closed.
C19_Original ==
    \A r \in Reqs :
        Succeeded(r) => Place(steps[r], "record") < Place(steps[r], "close")

\* n times "forward".
Forwards(n) == [i \in 1..n |-> "forward"]

\* C19, amended: the steps of a completed relay are validate, headers,
\* open, one forward per item of the stream, the done frame, the close of
\* the response and then the recording of the usage.
C19_StepOrder ==
    \A r \in Reqs :
        Succeeded(r) =>
            steps[r] = <<"validate", "headers", "open">>
                          \o Forwards(Len(produced[r]))
                          \o <<"done", "close", "record">>

\* A relay completed after forwarding an item.
C19_Witness ==
    \E r \in Reqs : Succeeded(r) /\ Count(steps[r], "forward") >= 1

\* C20: the usage of the done frame is the last usage summary the stream
\* supplied, null when it supplied none; the same value is returned to the
\* controller, stored in res.locals.tokenUsage, and given to _recordUsage.
C20_UsageOfDoneFrame ==
    /\ [](\A r \in Reqs :
            Succeeded(r) =>
                /\ res[r].out[Len(res[r].out)].data.usage = LastUsage(produced[r])
                /\ usage[r] = LastUsage(produced[r])
                /\ pc[r] = "done" => res[r].tokenUsage = LastUsage(produced[r]))
    /\ [][\A r \in Reqs :
            (pc[r] = "streaming" /\ pc'[r] = "returned") =>
                LET u == LastUsage(produced[r]) IN
                  _tokenStats' =
                    IF u = JsNull THEN _tokenStats
                    ELSE [totalRequests |-> _tokenStats.totalRequests + 1,
                          promptTokens |-> _tokenStats.promptTokens + u.prompt_tokens,
                          completionTokens |->
                              _tokenStats.completionTokens + u.completion_tokens,
                          totalTokens |-> _tokenStats.totalTokens + u.total_tokens]]_vars

\* A relay completed on a stream that supplied two different summaries.
C20_Witness ==
    \E r \in Reqs :
        /\ pc[r] = "done"
        /\ Len(produced[r]) = 2
        /\ produced[r][1].usage # JsNull
        /\ produced[r][2].usage # JsNull
        /\ produced[r][1].usage # produced[r][2].usage

\* C21: the access-log line of a successful request with a usage summary
\* carries that summary's three counts: res.locals.tokenUsage is assigned
\* before the 'finish' handler reads it, although streamAIReply has ended the
\* response, with the value still unset, before handleChat resumes.
C21_LogLineHasTokens ==
    \A r \in Reqs :
        /\ pc[r] = "returned" =>
               /\ res[r].ended
               /\ res[r].tokenUsage = JsUndefined
               /\ logged[r] = NoLog
        /\ (logged[r] # NoLog /\ Succeeded(r) /\ LastUsage(produced[r]) # JsNull) =>
               LET u == LastUsage(produced[r]) IN
                 /\ res[r].tokenUsage = u
                 /\ logged[r] = [status |-> 200,
                                 tokens |-> [prompt |-> u.prompt_tokens,
                                             completion |-> u.completion_tokens,
                                             total |-> u.total_tokens]]

\* A successful request with a usage summary has been logged while another
\* request is still streaming.
C21_Witness ==
    \E r, q \in Reqs :
        /\ pc[r] = "done"
        /\ LastUsage(produced[r]) # JsNull
        /\ logged[r] # NoLog
        /\ logged[r].tokens # NoTokens
        /\ pc[q] = "streaming"

\* C22: the upstream request is open only on a response whose SSE headers
\* are flushed, so every upstream failure, the failure to open the call
\* included, ends as an error frame on the 200 event stream; no response has
\* a 5xx status, and the error middleware only ever gets validation errors.
C22_UpstreamFailureInBand ==
    \A r \in Reqs :
        /\ sent[r] # <<>> =>
               /\ 0 < Place(steps[r], "headers")
               /\ Place(steps[r], "headers") < Place(steps[r], "open")
        /\ pc[r] = "opening" =>
               /\ res[r].headersSent
               /\ res[r].headers = SseHeaders
               /\ res[r].out = <<>>
        /\ pc[r] = "failed" =>
               /\ res[r].statusCode = 200
               /\ <<"Content-Type", "text/event-stream">> \in res[r].headers
               /\ res[r].out # <<>>
               /\ \A i \in 1..Len(res[r].out) :
                      IF i = Len(res[r].out)
                      THEN res[r].out[i] = ErrorFrame
                      ELSE DOMAIN res[r].out[i].data = {"chunk"}
               /\ res[r].json = NoJson
               /\ nextErr[r] = NoError
        /\ res[r].statusCode \notin 500..599
        /\ nextErr[r] # NoError => ErrorStatus(nextErr[r]) = 400

\* The upstream call could not be opened: the error frame is the only frame.
C22_Witness ==
    \E r \in Reqs :
        /\ pc[r] = "failed"
        /\ Count(steps[r], "forward") = 0
        /\ produced[r] = <<>>
        /\ res[r].out = <<ErrorFrame>>

\* C23: the limiter counts a request before handleChat validates it and no
\* outcome gives the unit back: the count of an IP is the number of its
\* requests that reached the router in the window, the 400 answers among
\* them included, so once 100 requests of the window were answered 400 the
\* next request is answered 429 without being validated, whatever its body.
C23_InvalidRequestsCount ==
    \A r \in Reqs :
        LET i == ip[r] IN
          /\ hits[i] = arrivals[i]
          /\ invalid[i] <= hits[i]
          /\ pc[r] = "limiter" => steps[r] = <<>> /\ body[r] = NoRequest
          /\ (/\ pc[r] \notin {"arrived", "corsRejected", "limiter", "rejected"}
              /\ invalid[i] >= RateLimitMax) =>
                 /\ pc[r] = "limited"
                 /\ res[r].statusCode = 429
                 /\ res[r].json = [error |-> MsgRateLimit]
                 /\ Count(steps[r], "validate") = 0
                 /\ body[r] = NoRequest

\* The first 100 requests of the window were all answered 400 and the
\* 101st is answered 429.
C23_Witness ==
    /\ invalid["10.0.0.1"] = RateLimitMax
    /\ hits["10.0.0.1"] = RateLimitMax + 1
    /\ pc[1] = "limited"
    /\ res[1].statusCode = 429

RECURSIVE ChunkText(_)
\* The texts of the chunk payloads among the payloads, one after the other.
ChunkText(payloads) ==
    IF payloads = <<>> THEN <<>>
    ELSE (IF "chunk" \in DOMAIN Head(payloads) THEN Head(payloads).chunk ELSE <<>>)
         \o ChunkText(Tail(payloads))

\* C24: however the bytes of the frames written for a response are cut
\* into reads, the payloads the client has parsed are at every moment the
\* first of the payloads written, in their order, and all of them once the
\* bytes are read, with nothing left in the buffer or the decoder; the text
\* shown is the chunk texts parsed so far, all of them when the loop is
\* left on done, and the apology when the error frame was parsed.
C24_RoundTrip ==
    /\ Len(client.parsed) <= Len(client.written)
    /\ client.parsed = SubSeq(client.written, 1, Len(client.parsed))
    /\ client.wire = <<>> =>
           /\ client.parsed = client.written
           /\ client.buffer = <<>>
           /\ client.pending = <<>>
    /\ client.fullText = ChunkText(client.parsed)
    /\ client.state = "reading" => client.display = ChunkText(client.parsed)
    /\ client.state = "done" =>
           /\ client.display = ChunkText(client.written)
           /\ "done" \in DOMAIN client.written[Len(client.written)]
    /\ client.state = "error" =>
           /\ client.display = MsgSorry
           /\ client.written[Len(client.written)] = [error |-> MsgStreamError]

\* The loop was left on done with the text of two chunks shown, a blank
\* line and a two-byte character.
C24_Witness ==
    /\ client.state = "done"
    /\ Len(client.parsed) = 3
    /\ client.display = <<LF, LF, EAcute>>

====
